---- MODULE Spec2Model ----
(***************************************************************************)
(* exceptional: a failing Executable is wrapped in a UnitTest, which is    *)
(* rendered as a #[test] function and appended to a file.                  *)
(*                                                                         *)
(* Text is modelled as a sequence of lines, a line as a sequence of string *)
(* tokens (digits are one-character tokens), so that rendering, encoding   *)
(* and decoding compute token by token.                                    *)
(***************************************************************************)
EXTENDS Integers, Sequences, FiniteSets, TLC

VARIABLES
    impl,        \* which implementor of Executable the caller uses
    executable,  \* the caller's `action` (main.rs:15), mutated through &mut
    arguments,   \* the caller's `args` binding (main.rs:19)
    now,         \* what Utc::now() reads, in milliseconds
    pending,     \* the UnitTest the caller holds and has not consumed yet, if any
    file,        \* the target path: [exists, content]
    ret,         \* what the last library call returned, with its effect counts
    hist         \* history: content at the start, the UnitTests appended, the
                 \* append_to_file calls made, whether all of them returned Ok

vars == <<impl, executable, arguments, now, pending, file, ret, hist>>

-----------------------------------------------------------------------------
(* Bounds *)

\* the clock reads 0..MaxTime milliseconds
MaxTime == 1
\* append_to_file calls on the path
MaxAppends == 2
\* main.rs:55, the first argument SomeImportantAction fails on
FailValue == 3

\* the arguments the caller passes, of main.rs:13-14: (2, 0), which passes,
\* and (3, 0), which fails
ArgSet == {<<FailValue - 1, 0>>, <<FailValue, 0>>}

\* the field values of a freshly constructed action, of main.rs:11-12
VarSet == {0}

\* the implementors of the Executable trait
Impls == {"SomeImportantAction", "Recorder"}

-----------------------------------------------------------------------------
(* Decimal formatting and parsing of integers: {} on an i64 / u32 *)

DigitChar(d) ==
    CASE d = 0 -> "0" [] d = 1 -> "1" [] d = 2 -> "2" [] d = 3 -> "3"
      [] d = 4 -> "4" [] d = 5 -> "5" [] d = 6 -> "6" [] d = 7 -> "7"
      [] d = 8 -> "8" [] d = 9 -> "9"

DigitChars == {"0", "1", "2", "3", "4", "5", "6", "7", "8", "9"}

DigitValue(c) == CHOOSE d \in 0..9 : DigitChar(d) = c

RECURSIVE Digits(_)
Digits(n) == IF n < 10 THEN <<DigitChar(n)>>
             ELSE Append(Digits(n \div 10), DigitChar(n % 10))

RECURSIVE ParseDigits(_)
ParseDigits(ds) ==
    IF Len(ds) = 1 THEN DigitValue(ds[1])
    ELSE 10 * ParseDigits(SubSeq(ds, 1, Len(ds) - 1)) + DigitValue(ds[Len(ds)])

-----------------------------------------------------------------------------
(* serde_json::to_string_pretty and serde_json::from_str *)

Whitespace == {"\n", "  ", " "}

\* #[derive(Serialize)] on SomeImportantAction, pretty-printed
to_string_pretty_obj(e) ==
    <<"{", "\n", "  ", "\"var_1\"", ":", " ">> \o Digits(e.var_1)
      \o <<",", "\n", "  ", "\"var_2\"", ":", " ">> \o Digits(e.var_2)
      \o <<"\n", "}">>

\* Serialize on the tuple (u32, u32), pretty-printed
to_string_pretty_args(a) ==
    <<"[", "\n", "  ">> \o Digits(a[1])
      \o <<",", "\n", "  ">> \o Digits(a[2])
      \o <<"\n", "]">>

\* the tokens of a JSON text that are not whitespace
Significant(toks) == SelectSeq(toks, LAMBDA t : t \notin Whitespace)

\* the longest run of digit tokens of toks that starts at position i
RECURSIVE DigitRun(_, _)
DigitRun(toks, i) ==
    IF i <= Len(toks) /\ toks[i] \in DigitChars
    THEN <<toks[i]>> \o DigitRun(toks, i + 1)
    ELSE <<>>

\* #[derive(Deserialize)] on SomeImportantAction: an object with both fields
from_str_obj(json) ==
    LET t  == Significant(json)
        d1 == DigitRun(t, 4)
        p  == 4 + Len(d1)
        d2 == DigitRun(t, p + 3)
        q  == p + 3 + Len(d2)
    IN  IF /\ Len(t) >= 9
           /\ t[1] = "{" /\ t[2] = "\"var_1\"" /\ t[3] = ":"
           /\ Len(d1) >= 1
           /\ p + 2 <= Len(t)
           /\ t[p] = "," /\ t[p + 1] = "\"var_2\"" /\ t[p + 2] = ":"
           /\ Len(d2) >= 1
           /\ q = Len(t) /\ t[q] = "}"
        THEN [ok |-> TRUE,
              value |-> [var_1 |-> ParseDigits(d1), var_2 |-> ParseDigits(d2)]]
        ELSE [ok |-> FALSE, value |-> [var_1 |-> 0, var_2 |-> 0]]

\* Deserialize on the tuple (u32, u32): an array of two numbers
from_str_args(json) ==
    LET t  == Significant(json)
        d1 == DigitRun(t, 2)
        p  == 2 + Len(d1)
        d2 == DigitRun(t, p + 1)
        q  == p + 1 + Len(d2)
    IN  IF /\ Len(t) >= 5
           /\ t[1] = "["
           /\ Len(d1) >= 1
           /\ p <= Len(t) /\ t[p] = ","
           /\ Len(d2) >= 1
           /\ q = Len(t) /\ t[q] = "]"
        THEN [ok |-> TRUE, value |-> <<ParseDigits(d1), ParseDigits(d2)>>]
        ELSE [ok |-> FALSE, value |-> <<0, 0>>]

-----------------------------------------------------------------------------
(* The Executable trait and its implementors *)

full_path(i) ==
    IF i = "SomeImportantAction" THEN "::SomeImportantAction" ELSE "::Recorder"

\* the implementor a type path names
TypeOf(path) == CHOOSE i \in Impls : full_path(i) = path

description(i, self) == "Executes some very important action!"

\* mutant: the check reads the second argument, as the example of the
\* crate documentation does (lib.rs:35)
SomeImportantAction_execute_second(self, args) ==
    IF args[2] = FailValue
    THEN [self |-> self, ok |-> FALSE, value |-> <<>>, error |-> "Whoopsie"]
    ELSE [self |-> self, ok |-> TRUE, value |-> <<>>, error |-> ""]

\* main.rs:54-60: fails when the first argument is FailValue, never mutates
SomeImportantAction_execute(self, args) ==
    IF args[1] = FailValue
    THEN [self |-> self, ok |-> FALSE, value |-> <<>>, error |-> "Whoopsie"]
    ELSE [self |-> self, ok |-> TRUE, value |-> <<>>, error |-> ""]

\* an implementor that uses the &mut self of the trait method: it stores the
\* arguments in its fields, then fails as SomeImportantAction does; on
\* success it returns the value var_1 had before
Recorder_execute(self, args) ==
    LET stored == [var_1 |-> args[1], var_2 |-> args[2]]
    IN  IF args[1] = FailValue
        THEN [self |-> stored, ok |-> FALSE, value |-> <<>>, error |-> "Whoopsie"]
        ELSE [self |-> stored, ok |-> TRUE, value |-> <<self.var_1>>, error |-> ""]

\* Executable::execute(&mut self, args), dispatched on the implementor
Executable_execute(i, self, args) ==
    IF i = "SomeImportantAction"
    THEN SomeImportantAction_execute(self, args)
    ELSE Recorder_execute(self, args)

\* #[derive(Clone)]: an independent copy of the owned u32 fields
clone(self) == [var_1 |-> self.var_1, var_2 |-> self.var_2]

-----------------------------------------------------------------------------
(* lib.rs: execute, UnitTest *)

\* mutant: the clone is taken after the invocation
execute_cloneAfter(i, exe, args, t) ==
    LET r   == Executable_execute(i, exe, args)
        old == clone(r.self)
    IN  [executable |-> r.self,
         ok         |-> r.ok,
         value      |-> r.value,
         unitTests  |-> IF r.ok THEN <<>>
                        ELSE <<[error      |-> r.error,
                                arguments  |-> args,
                                executable |-> old,
                                time       |-> t]>>,
         cloned     |-> <<old>>,
         invoked    |-> <<r>>,
         clock      |-> IF r.ok THEN <<>> ELSE <<t>>,
         arguments  |-> args]

\* mutant: the time is read before the match, on every call
execute_eagerTime(i, exe, args, t) ==
    LET old == clone(exe)
        r   == Executable_execute(i, exe, args)
    IN  [executable |-> r.self,
         ok         |-> r.ok,
         value      |-> r.value,
         unitTests  |-> IF r.ok THEN <<>>
                        ELSE <<[error      |-> r.error,
                                arguments  |-> args,
                                executable |-> old,
                                time       |-> t]>>,
         cloned     |-> <<old>>,
         invoked    |-> <<r>>,
         clock      |-> <<t>>,
         arguments  |-> args]

\* mutant: a failed invocation is tried once more
execute_retry(i, exe, args, t) ==
    LET old == clone(exe)
        r1  == Executable_execute(i, exe, args)
        r   == IF r1.ok THEN r1 ELSE Executable_execute(i, r1.self, args)
    IN  [executable |-> r.self,
         ok         |-> r.ok,
         value      |-> r.value,
         unitTests  |-> IF r.ok THEN <<>>
                        ELSE <<[error      |-> r.error,
                                arguments  |-> args,
                                executable |-> old,
                                time       |-> t]>>,
         cloned     |-> <<old>>,
         invoked    |-> IF r1.ok THEN <<r1>> ELSE <<r1, r>>,
         clock      |-> IF r.ok THEN <<>> ELSE <<t>>,
         arguments  |-> args]

\* lib.rs:103-119. The record returned holds the function's result (ok,
\* value, unitTests: the UnitTest of the Err channel), the executable as the
\* call leaves it, and a trace of what the call did: the clones it took,
\* the invocations it made, the clock reads, the arguments after the call.
execute(i, exe, args, t) ==
    LET old == clone(exe)
        r   == Executable_execute(i, exe, args)
    IN  [executable |-> r.self,
         ok         |-> r.ok,
         value      |-> r.value,
         unitTests  |-> IF r.ok THEN <<>>
                        ELSE <<[error      |-> r.error,
                                arguments  |-> args,
                                executable |-> old,
                                time       |-> t]>>,
         cloned     |-> <<old>>,
         invoked    |-> <<r>>,
         clock      |-> IF r.ok THEN <<>> ELSE <<t>>,
         arguments  |-> args]

-----------------------------------------------------------------------------
(* lib.rs: Display for UnitTest *)

\* DateTime::to_rfc2822 prints the instant at the resolution of one second:
\* the date and time of day of second t \div 1000, here as its count
to_rfc2822(t) == <<"rfc2822 of second ">> \o Digits(t \div 1000) \o <<" +0000">>

\* DateTime::timestamp_millis
timestamp_millis(t) == t

\* {:?} on a String
Debug(error) == <<"\"", error, "\"">>

\* mutant: the name is made of the timestamp in seconds
TestName_seconds(t) == <<"test_">> \o Digits(timestamp_millis(t) \div 1000)

\* the name of the generated test function, lib.rs:157
TestName(t) == <<"test_">> \o Digits(timestamp_millis(t))

\* the writeln! calls of lib.rs:148-185, one element each, with the values
\* they print: the description, the date, the error as {:?} prints it, the
\* name of the test, the two JSON texts and the type path
Block(desc, date, err, name, objText, path, argText) ==
    << <<"/// Automatically generated unit test for Executable">>,
       <<>>,
       <<"/// ", desc>>,
       <<"/// generated at ">> \o date,
       <<>>,
       <<"/// exception was ">> \o err,
       <<"#[test]">>,
       <<"pub fn ">> \o name \o <<"() {">>,
       <<"\tuse exceptional::Executable;">>,
       <<"\tlet obj_json = r#\"">> \o objText \o <<"\"#;">>,
       <<"\tlet mut obj: ", path,
         " = ::serde_json::from_str(obj_json).expect(\"Could not deserialize json\");">>,
       <<"\t">>,
       <<"\tlet arg_json = r#\"">> \o argText \o <<"\"#;">>,
       <<"\tlet args = ::serde_json::from_str(arg_json).expect(\"Could not deserialize json\");">>,
       <<>>,
       <<"\tif let Err(e) = obj.execute(&args) {">>,
       <<"\t\tprintln!(\"Could not execute {}\", obj.description());">>,
       <<"\t\tprintln!(\"{:?}\", e);">>,
       <<"\t\tpanic!();">>,
       <<"\t}">>,
       <<"}">> >>

\* mutant: the arguments' JSON is embedded in both literals
fmt_sameJson(ut, i, objJson, argJson) ==
    IF ~objJson.ok
    THEN [ok |-> FALSE, text |-> <<>>, panic |-> "Could not serialize the executable"]
    ELSE IF ~argJson.ok
    THEN [ok |-> FALSE, text |-> <<>>, panic |-> "Could not serialize arguments"]
    ELSE [ok |-> TRUE, panic |-> "",
          text |-> Block(description(i, ut.executable), to_rfc2822(ut.time),
                         Debug(ut.error), TestName(ut.time), argJson.text,
                         full_path(i), argJson.text)]

\* lib.rs:147-188. objJson and argJson are what serde_json::to_string_pretty
\* returned: [ok, text]. The result is [ok, text], or [ok |-> FALSE,
\* panic |-> message] where .expect panics.
fmt(ut, i, objJson, argJson) ==
    IF ~objJson.ok
    THEN [ok |-> FALSE, text |-> <<>>, panic |-> "Could not serialize the executable"]
    ELSE IF ~argJson.ok
    THEN [ok |-> FALSE, text |-> <<>>, panic |-> "Could not serialize arguments"]
    ELSE [ok |-> TRUE, panic |-> "",
          text |-> Block(description(i, ut.executable), to_rfc2822(ut.time),
                         Debug(ut.error), TestName(ut.time), objJson.text,
                         full_path(i), argJson.text)]

\* the number of writeln! elements of one rendered block
BlockLen == 21

-----------------------------------------------------------------------------
(* lib.rs: UnitTest::append_to_file *)

\* what serde_json::to_string_pretty returns: Ok(text), or Err when the
\* Serialize implementation of the value fails
Serialized(ok, text) == [ok |-> ok, text |-> IF ok THEN text ELSE <<>>]

\* the ways the environment can answer one append_to_file call: no fault,
\* or the open fails, or a Serialize implementation fails, or write_all
\* fails after it got `written` elements out (none, or half of them)
IoSet == [fault : {"none", "open", "executable", "arguments"}, written : {BlockLen}]
           \cup [fault : {"write"}, written : {0, BlockLen \div 2}]

\* mutant: the file is opened with truncate instead of append
append_to_file_truncate(ut, i, f, io) ==
    IF io.fault = "open"
    THEN [file |-> f, result |-> "Err", error |-> "open", opens |-> 1, writes |-> 0]
    ELSE
      LET opened == [exists |-> TRUE, content |-> <<>>]
          text   == fmt(ut, i,
                        Serialized(io.fault # "executable",
                                   to_string_pretty_obj(ut.executable)),
                        Serialized(io.fault # "arguments",
                                   to_string_pretty_args(ut.arguments)))
      IN  IF ~text.ok
          THEN [file |-> opened, result |-> "Panic", error |-> text.panic,
                opens |-> 1, writes |-> 0]
          ELSE IF io.fault = "write"
          THEN [file |-> [exists |-> TRUE,
                          content |-> SubSeq(text.text, 1, io.written)],
                result |-> "Err", error |-> "write", opens |-> 1, writes |-> 1]
          ELSE [file |-> [exists |-> TRUE, content |-> text.text],
                result |-> "Ok", error |-> "", opens |-> 1, writes |-> 1]

\* mutant: the block is written to the file as it is formatted (write! on
\* the file), so the elements before a failing serialization are written
append_to_file_streaming(ut, i, f, io) ==
    IF io.fault = "open"
    THEN [file |-> f, result |-> "Err", error |-> "open", opens |-> 1, writes |-> 0]
    ELSE
      LET whole == fmt(ut, i, Serialized(TRUE, to_string_pretty_obj(ut.executable)),
                       Serialized(TRUE, to_string_pretty_args(ut.arguments))).text
          text  == fmt(ut, i,
                       Serialized(io.fault # "executable",
                                  to_string_pretty_obj(ut.executable)),
                       Serialized(io.fault # "arguments",
                                  to_string_pretty_args(ut.arguments)))
      IN  IF ~text.ok
          THEN [file |-> [exists |-> TRUE,
                          content |-> f.content \o
                              SubSeq(whole, 1, IF io.fault = "executable" THEN 9 ELSE 12)],
                result |-> "Panic", error |-> text.panic,
                opens |-> 1, writes |-> 1]
          ELSE IF io.fault = "write"
          THEN [file |-> [exists |-> TRUE,
                          content |-> f.content \o SubSeq(text.text, 1, io.written)],
                result |-> "Err", error |-> "write", opens |-> 1, writes |-> 1]
          ELSE [file |-> [exists |-> TRUE, content |-> f.content \o text.text],
                result |-> "Ok", error |-> "", opens |-> 1, writes |-> 1]

\* mutant: the result of write_all is dropped
append_to_file_ignoreWrite(ut, i, f, io) ==
    IF io.fault = "open"
    THEN [file |-> f, result |-> "Err", error |-> "open", opens |-> 1, writes |-> 0]
    ELSE
      LET opened == [exists |-> TRUE, content |-> f.content]
          text   == fmt(ut, i,
                        Serialized(io.fault # "executable",
                                   to_string_pretty_obj(ut.executable)),
                        Serialized(io.fault # "arguments",
                                   to_string_pretty_args(ut.arguments)))
      IN  IF ~text.ok
          THEN [file |-> opened, result |-> "Panic", error |-> text.panic,
                opens |-> 1, writes |-> 0]
          ELSE IF io.fault = "write"
          THEN [file |-> [exists |-> TRUE,
                          content |-> f.content \o SubSeq(text.text, 1, io.written)],
                result |-> "Ok", error |-> "", opens |-> 1, writes |-> 1]
          ELSE [file |-> [exists |-> TRUE, content |-> f.content \o text.text],
                result |-> "Ok", error |-> "", opens |-> 1, writes |-> 1]

\* lib.rs:138-143. result is "Ok", "Err" (the io::Error returned by ?) or
\* "Panic" (the .expect of fmt, through to_string); file is the path after
\* the call; opens and writes count the calls of open and write_all.
append_to_file(ut, i, f, io) ==
    IF io.fault = "open"
    THEN [file |-> f, result |-> "Err", error |-> "open", opens |-> 1, writes |-> 0]
    ELSE
      LET opened == [exists |-> TRUE, content |-> f.content]
          text   == fmt(ut, i,
                        Serialized(io.fault # "executable",
                                   to_string_pretty_obj(ut.executable)),
                        Serialized(io.fault # "arguments",
                                   to_string_pretty_args(ut.arguments)))
      IN  IF ~text.ok
          THEN [file |-> opened, result |-> "Panic", error |-> text.panic,
                opens |-> 1, writes |-> 0]
          ELSE IF io.fault = "write"
          THEN [file |-> [exists |-> TRUE,
                          content |-> f.content \o SubSeq(text.text, 1, io.written)],
                result |-> "Err", error |-> "write", opens |-> 1, writes |-> 1]
          ELSE [file |-> [exists |-> TRUE, content |-> f.content \o text.text],
                result |-> "Ok", error |-> "", opens |-> 1, writes |-> 1]

-----------------------------------------------------------------------------
(* The generated #[test] function, lib.rs:156-185 *)

\* whether the BlockLen elements b are a whole rendered block
IsBlock(b) ==
    /\ Len(b) = BlockLen
    /\ b[1] = <<"/// Automatically generated unit test for Executable">>
    /\ b[7] = <<"#[test]">>
    /\ Len(b[8]) >= 3 /\ b[8][1] = "pub fn "
    /\ Len(b[10]) >= 2 /\ b[10][1] = "\tlet obj_json = r#\""
    /\ Len(b[11]) = 3
    /\ Len(b[13]) >= 2 /\ b[13][1] = "\tlet arg_json = r#\""
    /\ b[21] = <<"}">>

\* the positions of a text at which a whole rendered block starts
BlockStarts(content) ==
    {k \in 1..(Len(content) - BlockLen + 1) :
        IsBlock(SubSeq(content, k, k + BlockLen - 1))}

\* the name the block declares, lib.rs:157
NameOf(b) == SubSeq(b[8], 2, Len(b[8]) - 1)

\* the raw string literal of an element: what is between r#" and "#;
Literal(line) == SubSeq(line, 2, Len(line) - 1)

\* what running the generated test does: decode obj_json into the type
\* the block names, decode arg_json, execute, panic on Err
generated_test(b) ==
    LET type == TypeOf(b[11][2])
        obj  == from_str_obj(Literal(b[10]))
        args == from_str_args(Literal(b[13]))
    IN  IF ~obj.ok \/ ~args.ok
        THEN [outcome |-> "panicked", type |-> type,
              obj |-> obj.value, args |-> args.value, invoked |-> <<>>,
              printed |-> <<"Could not deserialize json">>]
        ELSE LET r == Executable_execute(type, obj.value, args.value)
             IN  [outcome |-> IF r.ok THEN "passed" ELSE "panicked",
                  type |-> type, obj |-> obj.value, args |-> args.value,
                  invoked |-> <<r>>,
                  printed |-> IF r.ok THEN <<>>
                              ELSE <<description(type, r.self)>> \o Debug(r.error)]

-----------------------------------------------------------------------------
(* The state machine: a caller of the library, as main.rs is. It appends  *)
(* a UnitTest as soon as execute returns one (main.rs:22-23) and goes on   *)
(* with the next arguments; it stops when append_to_file fails: the       *)
(* .expect of main.rs:24 panics on Err, and a panic of fmt unwinds         *)
(* through it.                                                             *)

NoFile == [exists |-> FALSE, content |-> <<>>]
EmptyFile == [exists |-> TRUE, content |-> <<>>]

\* the repository's src/test.rs: the block an earlier run appended for
\* SomeImportantAction {var_1: 0, var_2: 0} and the arguments (2, 0)
TestRs ==
    [exists  |-> TRUE,
     content |-> Block("Executes some very important action!",
                       <<"Wed, 17 Oct 2018 07:27:13 +0000">>,
                       <<"\"", "Whoopsie", "\"">>,
                       <<"test_", "1", "5", "3", "9", "7", "6", "1", "2", "3",
                         "3", "5", "4", "3">>,
                       <<"{", "\n", "  ", "\"var_1\"", ":", " ", "0", ",", "\n",
                         "  ", "\"var_2\"", ":", " ", "0", "\n", "}">>,
                       "::SomeImportantAction",
                       <<"[", "\n", "  ", "2", ",", "\n", "  ", "0", "\n", "]">>)]

Init ==
    /\ impl \in Impls
    /\ executable = [var_1 |-> 0, var_2 |-> 0]
    /\ arguments = <<FailValue - 1, 0>>
    /\ now = 0
    /\ pending = <<>>
    /\ file \in {NoFile, EmptyFile, TestRs}
    /\ ret = [op |-> "none"]
    /\ hist = [initial |-> file, appended |-> <<>>, calls |-> 0, allOk |-> TRUE]

\* the system clock advances by a millisecond
Tick ==
    /\ now < MaxTime
    /\ now' = now + 1
    /\ UNCHANGED <<impl, executable, arguments, pending, file, ret, hist>>

\* main.rs:15-18: the caller constructs a fresh action
NewAction ==
    \E v1 \in VarSet, v2 \in VarSet :
        /\ hist.allOk
        /\ executable' = [var_1 |-> v1, var_2 |-> v2]
        /\ UNCHANGED <<impl, arguments, now, pending, file, ret, hist>>

\* main.rs:19-21: let args = a; exceptional::execute(&mut action, &args)
Call ==
    \E a \in ArgSet :
        LET out == execute(impl, executable, a, now)
        IN  /\ hist.allOk
            /\ pending = <<>>
            /\ arguments' = out.arguments
            /\ executable' = out.executable
            /\ pending' = pending \o out.unitTests
            /\ ret' = [op |-> "execute", pre |-> executable, args |-> a,
                       at |-> now, out |-> out]
            /\ UNCHANGED <<impl, now, file, hist>>

\* the sequence s without its n-th element
Without(s, n) == SubSeq(s, 1, n - 1) \o SubSeq(s, n + 1, Len(s))

\* main.rs:23: e.append_to_file("src/test.rs"), which consumes e
AppendToFile ==
    \E n \in 1..Len(pending), io \in IoSet :
        LET ut  == pending[n]
            out == append_to_file(ut, impl, file, io)
        IN  /\ hist.allOk
            /\ hist.calls < MaxAppends
            /\ file' = out.file
            /\ pending' = Without(pending, n)
            /\ ret' = [op |-> "append_to_file", pre |-> file, ut |-> ut,
                       io |-> io, out |-> out]
            /\ hist' = [initial  |-> hist.initial,
                        appended |-> IF out.result = "Ok"
                                     THEN Append(hist.appended,
                                                 [ut |-> ut, at |-> Len(file.content) + 1])
                                     ELSE hist.appended,
                        calls    |-> hist.calls + 1,
                        allOk    |-> hist.allOk /\ out.result = "Ok"]
            /\ UNCHANGED <<impl, executable, arguments, now>>

\* cargo test runs one of the generated tests the file holds
RunGeneratedTest ==
    \E k \in BlockStarts(file.content) :
        LET b == SubSeq(file.content, k, k + BlockLen - 1)
        IN  /\ ret' = [op |-> "test", at |-> k, out |-> generated_test(b)]
            /\ UNCHANGED <<impl, executable, arguments, now, pending, file, hist>>

Next == Tick \/ NewAction \/ Call \/ AppendToFile \/ RunGeneratedTest

Spec == Init /\ [][Next]_vars

-----------------------------------------------------------------------------
(* Helpers of the properties *)

IsPrefix(s, t) == Len(s) <= Len(t) /\ SubSeq(t, 1, Len(s)) = s

\* the block a UnitTest of the caller's type renders to
Rendered(ut) ==
    fmt(ut, impl, Serialized(TRUE, to_string_pretty_obj(ut.executable)),
        Serialized(TRUE, to_string_pretty_args(ut.arguments))).text

\* the blocks of a sequence of appended UnitTests, one after the other
RECURSIVE AllRendered(_)
AllRendered(apps) ==
    IF apps = <<>> THEN <<>>
    ELSE Rendered(Head(apps).ut) \o AllRendered(Tail(apps))

\* the BlockLen elements of the file from position k on
BlockAt(k) == SubSeq(file.content, k, k + BlockLen - 1)

Failed == ret.op = "execute" /\ ~ret.out.invoked[1].ok
Succeeded == ret.op = "execute" /\ ret.out.invoked[1].ok

-----------------------------------------------------------------------------
(* C1: when execute fails, the executable of the UnitTest it returns is   *)
(* the operation as it was before the call, also when the operation's     *)
(* execute changed the operation before it returned the error.            *)
C1_SnapshotPrecedesMutation ==
    (ret.op = "execute" /\ ~ret.out.ok) =>
        /\ Len(ret.out.unitTests) = 1
        /\ ret.out.unitTests[1].executable = ret.pre
        /\ (ret.out.executable # ret.pre =>
               ret.out.unitTests[1].executable # ret.out.executable)

\* a failing call that changed the operation in place
C1_Witness ==
    /\ ret.op = "execute" /\ ~ret.out.ok
    /\ ret.out.executable # ret.pre
    /\ Len(pending) = 1 /\ pending[1].executable = ret.pre

(* C2: when the operation's execute succeeds with v, the wrapper returns  *)
(* Ok(v), builds no UnitTest, reads no clock, and the call leaves the     *)
(* file as it was.                                                        *)
C2_SuccessPathPure ==
    /\ [](Succeeded =>
            /\ ret.out.ok
            /\ ret.out.value = Executable_execute(impl, ret.pre, ret.args).value
            /\ ret.out.unitTests = <<>>
            /\ ret.out.clock = <<>>
            /\ pending = <<>>)
    /\ [][(ret'.op = "execute" /\ ret'.out.invoked[1].ok /\ ret' # ret) =>
            (file' = file /\ hist' = hist /\ pending' = pending /\ now' = now)]_vars

\* a successful call that returned a value that is not the unit
C2_Witness == Succeeded /\ ret.out.ok /\ ret.out.value = <<FailValue - 1>>

(* C9: a call of the wrapper clones the operation once, before the one    *)
(* invocation it makes; it returns one UnitTest when that invocation      *)
(* fails and none when it succeeds; the arguments are as before.          *)
C9_SingleInvocation ==
    ret.op = "execute" =>
        /\ ret.out.cloned = <<ret.pre>>
        /\ ret.out.invoked = <<Executable_execute(impl, ret.pre, ret.args)>>
        /\ ret.out.executable = ret.out.invoked[1].self
        /\ ret.out.ok = ret.out.invoked[1].ok
        /\ Len(ret.out.unitTests) = (IF ret.out.invoked[1].ok THEN 0 ELSE 1)
        /\ ret.out.arguments = ret.args
        /\ arguments = ret.args

\* a failing call of the implementor that mutates: one invocation, one UnitTest
C9_Witness ==
    /\ Failed /\ impl = "Recorder"
    /\ Len(ret.out.invoked) = 1 /\ Len(ret.out.unitTests) = 1

(* C3: the generated test decodes the snapshot into the type the block    *)
(* names, decodes the arguments, invokes the operation once and panics    *)
(* exactly when that invocation returns Err. Run against the unchanged    *)
(* operation, a block this run appended fails with the error that was     *)
(* captured; the block of test.rs, whose arguments the operation no       *)
(* longer fails on, passes.                                               *)
C3_Replay ==
    ret.op = "test" =>
        LET o  == ret.out
            js == {j \in 1..Len(hist.appended) : hist.appended[j].at = ret.at}
        IN  /\ full_path(o.type) = BlockAt(ret.at)[11][2]
            /\ o.invoked = <<Executable_execute(o.type, o.obj, o.args)>>
            /\ (o.outcome = "panicked") <=> ~o.invoked[1].ok
            /\ (o.outcome = "passed") <=> o.invoked[1].ok
            /\ IF js = {}
               THEN /\ hist.initial = TestRs /\ ret.at = 1
                    /\ o.type = "SomeImportantAction"
                    /\ o.obj = [var_1 |-> 0, var_2 |-> 0]
                    /\ o.args = <<2, 0>>
                    /\ o.outcome = "passed"
               ELSE \A j \in js :
                      LET ut == hist.appended[j].ut
                      IN  /\ o.type = impl
                          /\ o.obj = ut.executable
                          /\ o.args = ut.arguments
                          /\ o.outcome = "panicked"
                          /\ o.printed = <<description(impl, ut.executable)>>
                                           \o Debug(ut.error)

\* a generated test of this run was replayed, on a snapshot that differs
\* from the operation as the failing call left it
C3_Witness ==
    /\ ret.op = "test" /\ ret.out.outcome = "panicked"
    /\ \E j \in 1..Len(hist.appended) :
          /\ hist.appended[j].at = ret.at
          /\ hist.appended[j].ut.executable # [var_1 |-> FailValue, var_2 |-> 0]
          /\ impl = "Recorder"

(* C4: while every append_to_file call returned Ok, the content of the    *)
(* file is the content it had at the start (empty when the path was       *)
(* missing, and the first call creates the file) followed by the blocks   *)
(* of the calls in call order; no call, failed or not, changes what was   *)
(* in the file before it.                                                 *)
C4_AppendOnly ==
    /\ hist.allOk =>
          /\ Len(hist.appended) = hist.calls
          /\ file.content = hist.initial.content \o AllRendered(hist.appended)
          /\ (hist.calls > 0 => file.exists)
    /\ IsPrefix(hist.initial.content, file.content)
    /\ ret.op = "append_to_file" => IsPrefix(ret.pre.content, file.content)

\* two successful calls on a path that was missing
C4_Witness ==
    /\ hist.allOk /\ hist.calls = 2 /\ ~hist.initial.exists
    /\ Len(file.content) = 2 * BlockLen

(* C5: no two test blocks of the file carry the same generated name.      *)
C5_NamesUnique ==
    \A k1, k2 \in BlockStarts(file.content) :
        k1 # k2 => NameOf(BlockAt(k1)) # NameOf(BlockAt(k2))

(* C6: two UnitTests whose timestamps differ in milliseconds render to    *)
(* blocks with distinct names, and once both are appended the file holds  *)
(* both blocks whole, in append order.                                    *)
C6_DistinctTimestamps ==
    \A i, j \in 1..Len(hist.appended) :
        LET a == hist.appended[i]
            b == hist.appended[j]
        IN  (i < j /\ timestamp_millis(a.ut.time) # timestamp_millis(b.ut.time)) =>
               /\ NameOf(Rendered(a.ut)) # NameOf(Rendered(b.ut))
               /\ a.at + BlockLen <= b.at
               /\ BlockAt(a.at) = Rendered(a.ut)
               /\ BlockAt(b.at) = Rendered(b.ut)
               /\ NameOf(BlockAt(a.at)) # NameOf(BlockAt(b.at))

\* two UnitTests of different milliseconds were appended
C6_Witness ==
    \E i, j \in 1..Len(hist.appended) :
        /\ i < j
        /\ hist.appended[i].ut.time # hist.appended[j].ut.time

(* C7: an append_to_file call in which the serialization of the snapshot  *)
(* or of the arguments fails is aborted, writes nothing and leaves the    *)
(* content of the file as it was.                                         *)
C7_NoPartialBlock ==
    (ret.op = "append_to_file" /\ ret.io.fault \in {"executable", "arguments"}) =>
        /\ ret.out.result \notin {"Ok", "Err"}
        /\ ret.out.writes = 0
        /\ ret.out.file.content = ret.pre.content
        /\ file.content = ret.pre.content
        /\ BlockStarts(file.content) = BlockStarts(ret.pre.content)

\* the serialization of the arguments failed on a file that held a block
C7_Witness ==
    /\ ret.op = "append_to_file" /\ ret.io.fault = "arguments"
    /\ ret.pre.content # <<>>
    /\ Len(hist.appended) = 1

(* C8 as stated: each failure kind is returned as a failure result: the   *)
(* operation's error by execute, a serialization failure and an open or   *)
(* write error by append_to_file.                                         *)
C8_AllReturned ==
    /\ Failed => (~ret.out.ok /\ Len(ret.out.unitTests) = 1)
    /\ (ret.op = "append_to_file" /\ ret.io.fault # "none") =>
          ret.out.result = "Err"

(* C8 amended: the operation's error is returned by execute in the        *)
(* UnitTest, an open or write error is returned by append_to_file after   *)
(* one attempt, and a serialization failure is a panic of fmt that        *)
(* unwinds through append_to_file, not an Err; none ends in Ok.           *)
C8_Surfaced ==
    /\ Failed =>
          /\ ~ret.out.ok
          /\ Len(ret.out.unitTests) = 1
          /\ ret.out.unitTests[1].error = ret.out.invoked[1].error
    /\ ret.op = "append_to_file" =>
          /\ (ret.out.result = "Ok") <=> (ret.io.fault = "none")
          /\ ret.io.fault = "open" =>
                (ret.out.result = "Err" /\ ret.out.error = "open"
                 /\ ret.out.opens = 1 /\ ret.out.writes = 0)
          /\ ret.io.fault = "write" =>
                (ret.out.result = "Err" /\ ret.out.error = "write"
                 /\ ret.out.opens = 1 /\ ret.out.writes = 1)
          /\ ret.io.fault = "executable" =>
                (ret.out.result = "Panic"
                 /\ ret.out.error = "Could not serialize the executable")
          /\ ret.io.fault = "arguments" =>
                (ret.out.result = "Panic"
                 /\ ret.out.error = "Could not serialize arguments")
          /\ (ret.out.result # "Ok" => ~hist.allOk)

\* the serialization of the snapshot failed: the call panicked
C8_Witness ==
    /\ ret.op = "append_to_file" /\ ret.io.fault = "executable"
    /\ ret.out.result = "Panic"

(* C10: SomeImportantAction {var_1: 0, var_2: 0} succeeds on (2, 0) and   *)
(* fails with "Whoopsie" on (3, 0); the block of that failure embeds the  *)
(* snapshot {"var_1": 0, "var_2": 0}, the arguments [3, 0] and the error. *)
C10_Scenario ==
    impl = "SomeImportantAction" =>
        /\ (ret.op = "execute" /\ ret.pre = [var_1 |-> 0, var_2 |-> 0]
               /\ ret.args = <<2, 0>>) => ret.out.ok
        /\ (ret.op = "execute" /\ ret.pre = [var_1 |-> 0, var_2 |-> 0]
               /\ ret.args = <<3, 0>>) =>
              /\ ~ret.out.ok
              /\ ret.out.unitTests[1].error = "Whoopsie"
        /\ (ret.op = "append_to_file" /\ ret.out.result = "Ok"
               /\ ret.ut.executable = [var_1 |-> 0, var_2 |-> 0]
               /\ ret.ut.arguments = <<3, 0>>) =>
              LET b == BlockAt(Len(file.content) - BlockLen + 1)
              IN  /\ b[10] = <<"\tlet obj_json = r#\"", "{", "\n", "  ", "\"var_1\"",
                                ":", " ", "0", ",", "\n", "  ", "\"var_2\"", ":",
                                " ", "0", "\n", "}", "\"#;">>
                  /\ b[13] = <<"\tlet arg_json = r#\"", "[", "\n", "  ", "3", ",",
                                "\n", "  ", "0", "\n", "]", "\"#;">>
                  /\ b[6] = <<"/// exception was ", "\"", "Whoopsie", "\"">>

\* the failure of (3, 0) on {0, 0} was appended
C10_Witness ==
    /\ impl = "SomeImportantAction"
    /\ ret.op = "append_to_file" /\ ret.out.result = "Ok"
    /\ ret.ut.executable = [var_1 |-> 0, var_2 |-> 0]
    /\ ret.ut.arguments = <<3, 0>>
    /\ ret.ut.error = "Whoopsie"

====
